---------------------------- MODULE Spec2Model ----------------------------
(***************************************************************************)
(* A model of SSD1306Func.cpp: the vertical bitmap scroller                *)
(* (drawVerticalScrollingBitmap), the dialog text revealer                 *)
(* (drawDialogText / drawTimedDialogText) and the click-to-confirm gates   *)
(* (ctcSerial / ctcTimedSerial, and ctc / ctcTimed on a button pin).       *)
(*                                                                         *)
(* These specifications share the variables:                               *)
(*   SpecScroll  - one call of drawVerticalScrollingBitmap                 *)
(*   SpecDialog  - one call of drawDialogText / drawTimedDialogText        *)
(*   SpecGate    - one call of ctcSerial / ctcTimedSerial against a clock  *)
(*                 and a serial line driven by the environment             *)
(*   SpecGatePolled - SpecGate with the clock advancing only while the     *)
(*                 gate is polling (the busy loop outruns the clock)       *)
(*   SpecPin     - one call of ctc / ctcTimed against the clock, the       *)
(*                 serial line and the level of the button pin             *)
(*   SpecFade    - one call of fadeVertical / fadeHorizontal / fadeDiagonal *)
(***************************************************************************)
EXTENDS Integers, Sequences, FiniteSets, TLC

(***************************************************************************)
(* Program constants.                                                      *)
(***************************************************************************)
ON == 1
OFF == 0
RECOMM == -1
\* the viewport height the scroller hard-codes
VIEWPORT == 64
\* the toggle period of the click-to-confirm indicator, in milliseconds
BLINK == 500

(***************************************************************************)
(* Bounds of the model.                                                    *)
(***************************************************************************)
\* bitmaps shorter than the viewport: heights 0 .. MaxShort
MaxShort == 1
\* bitmaps around the viewport height: VIEWPORT-1 .. VIEWPORT+MaxExtra
MaxExtra == 4
\* end_y arguments: -MaxEnd .. MaxEnd
MaxEnd == 2
\* offset_y arguments: -MaxOff .. MaxOff
MaxOff == 2
\* scrollstep arguments: -MaxStep .. MaxStep
MaxStep == 3
\* delay arguments: RECOMM (use the recommended value) or MaxDelay
MaxDelay == 0
\* cap of the frames one stepping loop may present
MaxFrames == 80

\* dialog bodies: 0 .. MaxLen characters
MaxLen == 3
\* one long dialog body, longer than the largest uint8_t textspeed
LongLen == 257
\* fade transitions: cycles arguments RECOMM .. MaxCycles, wholedelaytime
\* arguments RECOMM, 0 and MaxWhole, on a display of DispWidth x DispHeight
MaxCycles == 3
MaxWhole == 7
DispWidth == 6
DispHeight == 4
\* textspeed arguments: RECOMM .. MaxSpeed
MaxSpeed == 3

Heights == (0..MaxShort) \cup ((VIEWPORT - 1)..(VIEWPORT + MaxExtra)) \cup {2 * VIEWPORT}
EndYs == (-MaxEnd)..MaxEnd
OffsetYs == (-MaxOff)..MaxOff
ScrollSteps == (-MaxStep)..MaxStep
DelayArgs == {RECOMM, MaxDelay}

\* the click-to-confirm marker, the character 0x60 (a backquote)
MARKER == "BACKQUOTE"
\* the characters of a dialog body
Chars == {"a", "b", MARKER}
RECURSIVE Strings(_)
Strings(n) == IF n = 0 THEN {<<>>}
              ELSE LET shorter == Strings(n - 1)
                   IN  shorter \cup {Append(t, c) : t \in {u \in shorter : Len(u) = n - 1}, c \in Chars}
LongDialog == [k \in 1..LongLen |-> "a"]
Dialogs == Strings(MaxLen) \cup {LongDialog}
TextSpeeds == RECOMM..MaxSpeed

\* bytes the serial buffer holds at most
MaxSerial == 2
\* the clock advances in ticks of TickMs milliseconds, up to MaxClock
TickMs == 100
MaxClock == 1300
\* timerMS arguments: RECOMM (negative), 0 or MaxTimer
MaxTimer == 700

Timers == {RECOMM, 0, MaxTimer}
\* cursor positions and text colours a caller may have set
Cursors == {<<0, 16>>, <<6, 24>>}
TextColors == {OFF, ON}

(***************************************************************************)
(* State.                                                                  *)
(***************************************************************************)
VARIABLES
  \* drawVerticalScrollingBitmap
  scrollPc,       \* "idle", "down", "up", "final", "done"
  scrollstep, snaptoend, allowoverflow, offset_y,
  endMarker,      \* the end_y argument as passed
  end_y,          \* end_y after the resolution of lines 265-269
  bmpHeight,      \* bmp.height
  initialdelay, enddelay, scrolldelay,
  height,         \* the loop variable `height`
  bitmapAt,       \* the y positions at which a copy of the bitmap is lit
  loopFrames,     \* display() calls made inside the stepping loop
  finalFrames,    \* display() calls made after the stepping loop
  lastStep,       \* the advance of `height` in the last loop iteration
  lastOps,        \* the last three display operations
  \* drawDialogText / drawTimedDialogText
  dlgPc,          \* "idle", "chunk", "inner", "tail", "instant", "end", "done"
  dlgFn,          \* "drawDialogText" or "drawTimedDialogText"
  dialog,         \* the dialog argument, a sequence of characters
  textspeedArg,   \* the textspeed argument as the caller passed it
  textspeed, chardelay, headerdelay, timer, timedinput, timedend, onebyone,
  i, x,           \* the loop variables `i` and `x`
  reads,          \* the indices of `dialog` read so far, in the order of the reads
  dlgOps,         \* the display operations and confirm-gate calls made so far
  \* ctcSerial / ctcTimedSerial / ctc / ctcTimed
  gatePc,         \* "idle", "drain", "check", "body", "exit", "flush", "returned"
  gateFn,         \* "ctcSerial", "ctcTimedSerial", "ctc" or "ctcTimed"
  timerMS,
  baseX, baseY, color, basetime, prev, now,   \* the locals of the gate
  serial,         \* the bytes waiting in the serial buffer (Serial.available())
  clock,          \* what millis() returns
  cursor,         \* the display's text cursor <<x, y>>
  textColor,      \* the display's text colour
  indicator,      \* the colour the ">>" glyphs were last drawn in
  toggles,        \* the indicator toggles of the wait loop
  exitDisplays,   \* display() calls made after the wait loop
  called,         \* the call's circumstances: bytes queued, cursor, text colour
  arrived,        \* an input event arrived after the call
  fresh,          \* an input event arrived after the stale input was discarded
  startTime,      \* millis() when the wait loop was entered
  pin,            \* the level of the button pin (digitalRead(button))
  pinFresh,       \* the pin went high after the wait loop was entered
  \* fadeVertical / fadeHorizontal / fadeDiagonal
  fadePc,         \* "idle", "loop", "clear", "returned", "trapped"
  fadeFn,         \* "fadeVertical", "fadeHorizontal" or "fadeDiagonal"
  cycles, wholedelaytime, state,   \* the parameters, after the defaults
  fadeI,          \* the loop variable `i`
  fadeLines,      \* the lines drawn so far (their `j`)
  fadeDisplays,   \* display() calls made so far
  fadeDelays,     \* the arguments of the delay() calls made so far
  divisors        \* the divisors of the divisions evaluated so far

scrollVars == <<scrollPc, scrollstep, snaptoend, allowoverflow, offset_y, endMarker,
                end_y, bmpHeight, initialdelay, enddelay, scrolldelay, height,
                bitmapAt, loopFrames, finalFrames, lastStep, lastOps>>

dlgVars == <<dlgPc, dlgFn, dialog, textspeedArg, textspeed, chardelay, headerdelay,
             timer, timedinput, timedend, onebyone, i, x, reads, dlgOps>>

gateVars == <<gatePc, gateFn, timerMS, baseX, baseY, color, basetime, prev, now, serial,
              clock, cursor, textColor, indicator, toggles, exitDisplays, called,
              arrived, fresh, startTime, pin, pinFresh>>

pinVars == <<pin, pinFresh>>

fadeVars == <<fadePc, fadeFn, cycles, wholedelaytime, state, fadeI, fadeLines,
              fadeDisplays, fadeDelays, divisors>>

vars == <<scrollVars, dlgVars, gateVars, fadeVars>>

notScroll == <<dlgVars, gateVars, fadeVars>>
notDialog == <<scrollVars, gateVars, fadeVars>>
notGate == <<scrollVars, dlgVars, fadeVars>>
notFade == <<scrollVars, dlgVars, gateVars>>

(***************************************************************************)
(* Display operations, as records in a log.                                *)
(***************************************************************************)
DrawBitmap(y, c) == [op |-> "drawBitmap", y |-> y, color |-> c, ms |-> 0]
Display == [op |-> "display", y |-> 0, color |-> 0, ms |-> 0]
Delay(ms) == [op |-> "delay", y |-> 0, color |-> 0, ms |-> ms]

\* the display() calls in a log
Displays(s) == Cardinality({k \in DOMAIN s : s[k].op = "display"})

\* the last three entries of a log
Last3(s) == IF Len(s) <= 3 THEN s ELSE SubSeq(s, Len(s) - 2, Len(s))

\* the effect of drawBitmap(.., y, .., color) on the lit copies of the bitmap
Lit(at, y, c) == IF c = ON THEN at \cup {y} ELSE at \ {y}

\* a store into an int16_t
ToInt16(v) == ((v + 32768) % 65536) - 32768

\* "Using negative values will use the recommended value"
Recommended(v, dflt) == IF v < 0 THEN dflt ELSE v

(***************************************************************************)
(* drawVerticalScrollingBitmap                                             *)
(***************************************************************************)
\* ResolveEndY with `end_y <= 0` written `end_y < 0`
ResolveEndY_StrictZero(step, e, h, allow) ==
  IF step > 0 /\ e < 0 THEN ToInt16(h)
  ELSE IF step > 0 /\ e + VIEWPORT > h /\ ~allow THEN ToInt16(h)
  ELSE IF step > 0 THEN ToInt16(e + VIEWPORT)
  ELSE IF step < 0 /\ e + VIEWPORT > h /\ ~allow THEN ToInt16(h - VIEWPORT)
  ELSE IF step < 0 /\ e < 0 /\ ~allow THEN 0
  ELSE e

\* ResolveEndY with the upward clamp written as the downward one (bmp.height)
ResolveEndY_UpClampHeight(step, e, h, allow) ==
  IF step > 0 /\ e <= 0 THEN ToInt16(h)
  ELSE IF step > 0 /\ e + VIEWPORT > h /\ ~allow THEN ToInt16(h)
  ELSE IF step > 0 THEN ToInt16(e + VIEWPORT)
  ELSE IF step < 0 /\ e + VIEWPORT > h /\ ~allow THEN ToInt16(h)
  ELSE IF step < 0 /\ e < 0 /\ ~allow THEN 0
  ELSE e

\* ResolveEndY without the downward clamp to bmp.height
ResolveEndY_NoDownClamp(step, e, h, allow) ==
  IF step > 0 /\ e <= 0 THEN ToInt16(h)
  ELSE IF step > 0 THEN ToInt16(e + VIEWPORT)
  ELSE IF step < 0 /\ e + VIEWPORT > h /\ ~allow THEN ToInt16(h - VIEWPORT)
  ELSE IF step < 0 /\ e < 0 /\ ~allow THEN 0
  ELSE e

\* lines 265-269: end_y becomes the absolute row where the scroll stops
ResolveEndY(step, e, h, allow) ==
  IF step > 0 /\ e <= 0 THEN ToInt16(h)
  ELSE IF step > 0 /\ e + VIEWPORT > h /\ ~allow THEN ToInt16(h)
  ELSE IF step > 0 THEN ToInt16(e + VIEWPORT)
  ELSE IF step < 0 /\ e + VIEWPORT > h /\ ~allow THEN ToInt16(h - VIEWPORT)
  ELSE IF step < 0 /\ e < 0 /\ ~allow THEN 0
  ELSE e

\* line 277: the condition of the downward loop
DownCond(h, off, e) == h + VIEWPORT - off < e

\* DownAdvance with `height++` written `height--`
DownAdvance_Decrement(h, step, off, e, snap) ==
  IF h + VIEWPORT - off + step < e THEN step
  ELSE IF h + VIEWPORT - off < e /\ ~snap THEN -1
  ELSE 0

\* lines 280-282: the advance of `height` in one downward iteration; 0 is `break`
DownAdvance(h, step, off, e, snap) ==
  IF h + VIEWPORT - off + step < e THEN step
  ELSE IF h + VIEWPORT - off < e /\ ~snap THEN 1
  ELSE 0

\* DownFinalY without the viewport subtracted
DownFinalY_NoViewport(e) == -e

\* line 289: where the final frame of a downward scroll is drawn
DownFinalY(e) == -(e - VIEWPORT)

\* line 294: the condition of the upward loop
UpCond(h, e) == h < -e

\* UpAdvance taking the full step whatever remains
UpAdvance_AlwaysStep(h, step, e, snap) == -step

\* lines 297-299: the advance of `height` in one upward iteration; 0 is `break`
UpAdvance(h, step, e, snap) ==
  IF h - step <= -e THEN -step
  ELSE IF h <= -e /\ ~snap THEN 1
  ELSE 0

\* line 306: where the final frame of an upward scroll is drawn
UpFinalY(e) == -e

\* FinalFrameOps without the display() call
FinalFrameOps_NoDisplay(y, d) == <<DrawBitmap(y, ON), Delay(d)>>

\* lines 289-291 / 306-308: the final frame
FinalFrameOps(y, d) == <<DrawBitmap(y, ON), Display, Delay(d)>>

\* lines 257-273: the call, the defaults, the resolution of end_y, the first frame
ScrollCall ==
  /\ UNCHANGED notScroll
  /\ scrollPc = "idle"
  /\ \E st \in ScrollSteps, sn \in BOOLEAN, ao \in BOOLEAN, oy \in OffsetYs,
        ey \in EndYs, h \in Heights, d1 \in DelayArgs, d2 \in DelayArgs, d3 \in DelayArgs :
       /\ scrollstep' = st
       /\ snaptoend' = sn
       /\ allowoverflow' = ao
       /\ offset_y' = oy
       /\ endMarker' = ey
       /\ bmpHeight' = h
       /\ initialdelay' = Recommended(d1, 500)
       /\ enddelay' = Recommended(d2, 500)
       /\ scrolldelay' = Recommended(d3, 5)
       /\ end_y' = ResolveEndY(st, ey, h, ao)
       /\ bitmapAt' = Lit(bitmapAt, oy, ON)
       /\ lastOps' = <<DrawBitmap(oy, ON), Display, Delay(Recommended(d1, 500))>>
       /\ height' = IF st < 0 THEN oy ELSE 0
       /\ scrollPc' = IF st > 0 THEN "down" ELSE IF st < 0 THEN "up" ELSE "done"
  /\ UNCHANGED <<loopFrames, finalFrames, lastStep>>

\* lines 277-287: one iteration of the downward loop
DownIter ==
  /\ UNCHANGED notScroll
  /\ scrollPc = "down"
  /\ DownCond(height, offset_y, end_y)
  /\ loopFrames < MaxFrames
  /\ LET adv == DownAdvance(height, scrollstep, offset_y, end_y, snaptoend)
         h2 == height + adv
         erased == Lit(bitmapAt, -height + offset_y, OFF)
     IN  IF adv = 0
         THEN /\ scrollPc' = "final"
              /\ bitmapAt' = erased
              /\ lastOps' = Last3(lastOps \o <<DrawBitmap(-height + offset_y, OFF)>>)
              /\ UNCHANGED <<height, loopFrames, lastStep>>
         ELSE /\ height' = h2
              /\ lastStep' = adv
              /\ bitmapAt' = Lit(erased, -h2 + offset_y, ON)
              /\ loopFrames' = loopFrames + 1
              /\ lastOps' = <<DrawBitmap(-h2 + offset_y, ON), Display, Delay(scrolldelay)>>
              /\ UNCHANGED scrollPc
  /\ UNCHANGED <<scrollstep, snaptoend, allowoverflow, offset_y, endMarker, end_y,
                 bmpHeight, initialdelay, enddelay, scrolldelay, finalFrames>>

\* lines 289-291: the final frame of the downward scroll
DownFinal ==
  /\ UNCHANGED notScroll
  /\ scrollstep > 0
  /\ \/ scrollPc = "final"
     \/ scrollPc = "down" /\ ~DownCond(height, offset_y, end_y)
  /\ scrollPc' = "done"
  /\ bitmapAt' = Lit(bitmapAt, DownFinalY(end_y), ON)
  /\ finalFrames' = finalFrames + Displays(FinalFrameOps(DownFinalY(end_y), enddelay))
  /\ lastOps' = Last3(lastOps \o FinalFrameOps(DownFinalY(end_y), enddelay))
  /\ UNCHANGED <<scrollstep, snaptoend, allowoverflow, offset_y, endMarker, end_y,
                 bmpHeight, initialdelay, enddelay, scrolldelay, height, loopFrames,
                 lastStep>>

\* lines 294-304: one iteration of the upward loop
UpIter ==
  /\ UNCHANGED notScroll
  /\ scrollPc = "up"
  /\ UpCond(height, end_y)
  /\ loopFrames < MaxFrames
  /\ LET adv == UpAdvance(height, scrollstep, end_y, snaptoend)
         h2 == height + adv
         erased == Lit(bitmapAt, height, OFF)
     IN  IF adv = 0
         THEN /\ scrollPc' = "final"
              /\ bitmapAt' = erased
              /\ lastOps' = Last3(lastOps \o <<DrawBitmap(height, OFF)>>)
              /\ UNCHANGED <<height, loopFrames, lastStep>>
         ELSE /\ height' = h2
              /\ lastStep' = adv
              /\ bitmapAt' = Lit(erased, h2, ON)
              /\ loopFrames' = loopFrames + 1
              /\ lastOps' = <<DrawBitmap(h2, ON), Display, Delay(scrolldelay)>>
              /\ UNCHANGED scrollPc
  /\ UNCHANGED <<scrollstep, snaptoend, allowoverflow, offset_y, endMarker, end_y,
                 bmpHeight, initialdelay, enddelay, scrolldelay, finalFrames>>

\* lines 306-308: the final frame of the upward scroll
UpFinal ==
  /\ UNCHANGED notScroll
  /\ scrollstep < 0
  /\ \/ scrollPc = "final"
     \/ scrollPc = "up" /\ ~UpCond(height, end_y)
  /\ scrollPc' = "done"
  /\ bitmapAt' = Lit(bitmapAt, UpFinalY(end_y), ON)
  /\ finalFrames' = finalFrames + Displays(FinalFrameOps(UpFinalY(end_y), enddelay))
  /\ lastOps' = Last3(lastOps \o FinalFrameOps(UpFinalY(end_y), enddelay))
  /\ UNCHANGED <<scrollstep, snaptoend, allowoverflow, offset_y, endMarker, end_y,
                 bmpHeight, initialdelay, enddelay, scrolldelay, height, loopFrames,
                 lastStep>>

InitScroll ==
  /\ scrollPc = "idle"
  /\ scrollstep = 0
  /\ snaptoend = FALSE
  /\ allowoverflow = FALSE
  /\ offset_y = 0
  /\ endMarker = 0
  /\ end_y = 0
  /\ bmpHeight = 0
  /\ initialdelay = 0
  /\ enddelay = 0
  /\ scrolldelay = 0
  /\ height = 0
  /\ bitmapAt = {}
  /\ loopFrames = 0
  /\ finalFrames = 0
  /\ lastStep = 0
  /\ lastOps = <<>>

NextScroll == ScrollCall \/ DownIter \/ DownFinal \/ UpIter \/ UpFinal

(***************************************************************************)
(* drawDialogText / drawTimedDialogText                                    *)
(***************************************************************************)
\* a uint8_t parameter receives its argument modulo 256
ToUint8(v) == v % 256

\* line 329 / 392: `if (textspeed <= 0) textspeed = 1` on the uint8_t parameter
NormTextspeed(arg) == IF ToUint8(arg) <= 0 THEN 1 ELSE ToUint8(arg)

Write(c) == [op |-> "write", ch |-> c, ms |-> 0]
WriteHeader == [op |-> "writeHeader", ch |-> "", ms |-> 0]
Present == [op |-> "display", ch |-> "", ms |-> 0]
Wait(ms) == [op |-> "delay", ch |-> "", ms |-> ms]
\* a call of a confirm gate: `site` is "mid" (at a marker) or "end"
Gate(fn, site, ms) == [op |-> fn, ch |-> site, ms |-> ms]

\* display->write(str): the characters of str, one after the other
WriteAll(str) == [k \in 1..Len(str) |-> Write(str[k])]

GateAt_FlagsSwapped(fn, site, timedIn, timedEnd, t) ==
  IF fn = "drawDialogText" THEN Gate("ctcSerial", site, 0)
  ELSE IF (site = "mid" /\ timedEnd # 0) \/ (site = "end" /\ timedIn # 0)
    THEN Gate("ctcTimedSerial", site, t)
  ELSE Gate("ctcSerial", site, 0)

\* lines 350, 365, 376 and 414-415, 431-432, 444-445: the gate a site waits on
GateAt(fn, site, timedIn, timedEnd, t) ==
  IF fn = "drawDialogText" THEN Gate("ctcSerial", site, 0)
  ELSE IF (site = "mid" /\ timedIn # 0) \/ (site = "end" /\ timedEnd # 0)
    THEN Gate("ctcTimedSerial", site, t)
  ELSE Gate("ctcSerial", site, 0)

\* lines 346-351 / 410-416: one character of a chunk
ChunkCharOps(c, fn, timedIn, timedEnd, t, cd) ==
  IF c # MARKER THEN <<Write(c)>>
  ELSE <<Present, Wait(cd), GateAt(fn, "mid", timedIn, timedEnd, t)>>

\* TailCharOps without the display() after the character
TailCharOps_NoPresent(c, fn, timedIn, timedEnd, t, cd) ==
  IF c # MARKER THEN <<Write(c), Wait(cd)>>
  ELSE <<GateAt(fn, "mid", timedIn, timedEnd, t)>>

\* lines 360-365 / 425-433: one character of the trailing loop
TailCharOps(c, fn, timedIn, timedEnd, t, cd) ==
  IF c # MARKER THEN <<Write(c), Present, Wait(cd)>>
  ELSE <<GateAt(fn, "mid", timedIn, timedEnd, t)>>

\* lines 371-373 / 439-441: the whole dialog at once
InstantOps(str) == WriteAll(str) \o <<Present, Wait(1)>>

\* line 344 / 408: the condition of the chunked loop
ChunkCond(k, speed, size) == k + speed < size

\* ChunkAdvance moving on by one character only
ChunkAdvance_One(k, speed) == k + 1

\* line 356 / 421: `i += textspeed`
ChunkAdvance(k, speed) == k + speed

\* where the one-by-one walk goes once `i` is set
WalkPc(k, speed, size) == IF ChunkCond(k, speed, size) THEN "inner" ELSE "tail"

\* lines 327-342 / 390-406: the call, the defaults, the header
DialogCall ==
  /\ UNCHANGED notDialog
  /\ dlgPc = "idle"
  /\ \E fn \in {"drawDialogText", "drawTimedDialogText"}, d \in Dialogs, ts \in TextSpeeds,
        cd \in DelayArgs, hd \in DelayArgs, t \in DelayArgs,
        ti \in 0..1, te \in 0..1, obo \in 0..1 :
       /\ fn = "drawDialogText" => (t = RECOMM /\ ti = 0 /\ te = 0)
       /\ dlgFn' = fn
       /\ dialog' = d
       /\ textspeedArg' = ts
       /\ textspeed' = NormTextspeed(ts)
       /\ chardelay' = Recommended(cd, 10)
       /\ headerdelay' = Recommended(hd, 200)
       /\ timer' = IF fn = "drawTimedDialogText" THEN Recommended(t, 10000) ELSE 0
       /\ timedinput' = ti
       /\ timedend' = te
       /\ onebyone' = obo
       /\ dlgOps' = <<WriteHeader, Present, Wait(Recommended(hd, 200))>>
       /\ i' = 0
       /\ x' = 0
       /\ reads' = <<>>
       /\ dlgPc' = IF obo # 0 THEN WalkPc(0, NormTextspeed(ts), Len(d)) ELSE "instant"

\* lines 345-352 / 409-417: one iteration of the for loop over a chunk
InnerChar ==
  /\ UNCHANGED notDialog
  /\ dlgPc = "inner"
  /\ x < textspeed
  /\ dlgOps' = dlgOps \o ChunkCharOps(dialog[i + x + 1], dlgFn, timedinput, timedend,
                                      timer, chardelay)
  /\ x' = x + 1
  /\ reads' = Append(reads, i + x)
  /\ UNCHANGED <<dlgPc, dlgFn, dialog, textspeedArg, textspeed,
                 chardelay, headerdelay, timer,
                 timedinput, timedend, onebyone, i>>

\* lines 354-356 / 419-421: the end of a chunk, and the loop condition again
ChunkEnd ==
  /\ UNCHANGED notDialog
  /\ dlgPc = "inner"
  /\ ~(x < textspeed)
  /\ dlgOps' = dlgOps \o <<Present, Wait(chardelay)>>
  /\ i' = ChunkAdvance(i, textspeed)
  /\ x' = 0
  /\ reads' = reads
  /\ dlgPc' = WalkPc(ChunkAdvance(i, textspeed), textspeed, Len(dialog))
  /\ UNCHANGED <<dlgFn, dialog, textspeedArg, textspeed,
                 chardelay, headerdelay, timer, timedinput,
                 timedend, onebyone>>

\* lines 359-367 / 424-435: one iteration of the trailing loop
TailChar ==
  /\ UNCHANGED notDialog
  /\ dlgPc = "tail"
  /\ i < Len(dialog)
  /\ dlgOps' = dlgOps \o TailCharOps(dialog[i + 1], dlgFn, timedinput, timedend,
                                     timer, chardelay)
  /\ i' = i + 1
  /\ reads' = Append(reads, i)
  /\ UNCHANGED <<dlgPc, dlgFn, dialog, textspeedArg, textspeed,
                 chardelay, headerdelay, timer,
                 timedinput, timedend, onebyone, x>>

\* lines 370-374 / 438-442: the dialog drawn at once
Instant ==
  /\ UNCHANGED notDialog
  /\ dlgPc = "instant"
  /\ dlgOps' = dlgOps \o InstantOps(dialog)
  /\ reads' = reads
  /\ dlgPc' = "end"
  /\ UNCHANGED <<dlgFn, dialog, textspeedArg, textspeed,
                 chardelay, headerdelay, timer, timedinput,
                 timedend, onebyone, i, x>>

\* line 376 / 444-445: the closing confirm gate
EndGate ==
  /\ UNCHANGED notDialog
  /\ \/ dlgPc = "end"
     \/ dlgPc = "tail" /\ ~(i < Len(dialog))
  /\ dlgOps' = Append(dlgOps, GateAt(dlgFn, "end", timedinput, timedend, timer))
  /\ reads' = reads
  /\ dlgPc' = "done"
  /\ UNCHANGED <<dlgFn, dialog, textspeedArg, textspeed,
                 chardelay, headerdelay, timer, timedinput,
                 timedend, onebyone, i, x>>

InitDialog ==
  /\ dlgPc = "idle"
  /\ dlgFn = "drawDialogText"
  /\ dialog = <<>>
  /\ textspeedArg = 1
  /\ textspeed = 1
  /\ chardelay = 0
  /\ headerdelay = 0
  /\ timer = 0
  /\ timedinput = 0
  /\ timedend = 0
  /\ onebyone = 0
  /\ i = 0
  /\ x = 0
  /\ reads = <<>>
  /\ dlgOps = <<>>

NextDialog == DialogCall \/ InnerChar \/ ChunkEnd \/ TailChar \/ Instant \/ EndGate
(***************************************************************************)
(* ctcSerial / ctcTimedSerial                                              *)
(***************************************************************************)
\* where the indicator is drawn, and the cursor after write(">>") there: two
\* glyphs of the 6-pixel font to the right
IndicatorAt == <<116, 0>>
AfterIndicator == <<IndicatorAt[1] + 2 * 6, IndicatorAt[2]>>

\* StaleInput with the discard of line 476 / 511 left out
StaleInput_Kept(n) == FALSE

\* line 476 / 511: `while (Serial.available()) Serial.read()` before the wait
StaleInput(n) == n > 0

\* ResidualInput with the buffer left as it is
ResidualInput_Kept(n) == FALSE

\* line 498 / 534: `while (Serial.available()) Serial.read()` after the wait
ResidualInput(n) == n > 0

\* line 551: ctc spins while the button is held, `while(digitalRead(button))`;
\* the other gates discard the stale serial input instead
PreWait(fn, n, p) == IF fn = "ctc" THEN p # 0 ELSE StaleInput(n)

\* WaitCond with the timeout applied to the untimed gates as well
WaitCond_AllTimed(fn, n, p, nw, bt, t) ==
  /\ IF fn = "ctc" THEN p = 0 ELSE n = 0
  /\ nw - bt < t

\* WaitCond without the timeout
WaitCond_NoTimeout(fn, n, p, nw, bt, t) == IF fn = "ctc" THEN p = 0 ELSE n = 0

\* line 481 / 517 / 556 / 589: the condition of the wait loop; ctc polls the
\* button pin, ctcTimed polls the serial line as ctcTimedSerial does
WaitCond(fn, n, p, nw, bt, t) ==
  /\ IF fn = "ctc" THEN p = 0 ELSE n = 0
  /\ fn \in {"ctcTimedSerial", "ctcTimed"} => nw - bt < t

\* line 483 / 519: the indicator toggles once more than 500 ms have passed
ToggleDue(nw, pv) == nw - pv > BLINK

\* lines 471-474 / 506-509 / 546-549 / 578-581: the call of one of the gates fns
GateCallOf(fns) ==
  /\ \E fn \in fns, t \in Timers, c \in Cursors, tc \in TextColors :
       /\ fn \in {"ctcSerial", "ctc"} => t = 0
       /\ gateFn' = fn
       /\ timerMS' = t
       /\ cursor' = c
       /\ textColor' = tc
       /\ baseX' = c[1]
       /\ baseY' = c[2]
       /\ called' = [queued |-> serial, cursor |-> c, textColor |-> tc]
  /\ color' = 0
  /\ gatePc' = "drain"
  /\ UNCHANGED <<basetime, prev, now, serial, clock, indicator, toggles, exitDisplays,
                 arrived, fresh, startTime>>

\* a call of ctcSerial or ctcTimedSerial
GateCall ==
  /\ UNCHANGED notGate
  /\ UNCHANGED pinVars
  /\ gatePc = "idle"
  /\ GateCallOf({"ctcSerial", "ctcTimedSerial"})

\* a call of ctc or ctcTimed
PinGateCall ==
  /\ UNCHANGED notGate
  /\ UNCHANGED pinVars
  /\ gatePc = "idle"
  /\ GateCallOf({"ctc", "ctcTimed"})

\* line 476 / 511 / 583: one Serial.read() of the stale input
DrainRead ==
  /\ UNCHANGED notGate
  /\ UNCHANGED pinVars
  /\ gatePc = "drain"
  /\ gateFn # "ctc"
  /\ StaleInput(serial)
  /\ serial' = serial - 1
  /\ UNCHANGED <<gatePc, gateFn, timerMS, baseX, baseY, color, basetime, prev, now, clock,
                 cursor, textColor, indicator, toggles, exitDisplays, called, arrived,
                 fresh, startTime>>

\* lines 478-479 / 513-515: the start of the wait is recorded (the consecutive
\* millis() calls of ctcTimedSerial read the same tick)
WaitBegin ==
  /\ UNCHANGED notGate
  /\ UNCHANGED pinVars
  /\ gatePc = "drain"
  /\ ~PreWait(gateFn, serial, pin)
  /\ prev' = clock
  /\ basetime' = IF gateFn \in {"ctcTimedSerial", "ctcTimed"} THEN clock ELSE basetime
  /\ now' = IF gateFn \in {"ctcTimedSerial", "ctcTimed"} THEN clock ELSE now
  /\ startTime' = clock
  /\ gatePc' = "check"
  /\ UNCHANGED <<gateFn, timerMS, baseX, baseY, color, serial, clock, cursor, textColor,
                 indicator, toggles, exitDisplays, called, arrived, fresh>>

\* line 481 / 517: the condition of the wait loop is evaluated
WaitCheck ==
  /\ UNCHANGED notGate
  /\ UNCHANGED pinVars
  /\ gatePc = "check"
  /\ gatePc' = IF WaitCond(gateFn, serial, pin, now, basetime, timerMS) THEN "body" ELSE "exit"
  /\ UNCHANGED <<gateFn, timerMS, baseX, baseY, color, basetime, prev, now, serial, clock,
                 cursor, textColor, indicator, toggles, exitDisplays, called, arrived,
                 fresh, startTime>>

\* lines 482-490 / 518-526: the body of the wait loop
WaitBody ==
  /\ UNCHANGED notGate
  /\ UNCHANGED pinVars
  /\ gatePc = "body"
  /\ now' = clock
  /\ IF ToggleDue(clock, prev)
       THEN /\ prev' = clock
            /\ color' = 1 - color
            /\ cursor' = AfterIndicator
            /\ textColor' = 1 - color
            /\ indicator' = 1 - color
            /\ toggles' = toggles + 1
       ELSE UNCHANGED <<prev, color, cursor, textColor, indicator, toggles>>
  /\ gatePc' = "check"
  /\ UNCHANGED <<gateFn, timerMS, baseX, baseY, basetime, serial, clock, exitDisplays,
                 called, arrived, fresh, startTime>>

\* lines 493-496 / 529-532: the indicator is drawn in the off colour and presented
GateExit ==
  /\ UNCHANGED notGate
  /\ UNCHANGED pinVars
  /\ gatePc = "exit"
  /\ cursor' = AfterIndicator
  /\ textColor' = 0
  /\ indicator' = 0
  /\ exitDisplays' = exitDisplays + 1
  /\ gatePc' = "flush"
  /\ UNCHANGED <<gateFn, timerMS, baseX, baseY, color, basetime, prev, now, serial, clock,
                 toggles, called, arrived, fresh, startTime>>

\* line 498 / 534: one Serial.read() of the residual input
FlushRead ==
  /\ UNCHANGED notGate
  /\ UNCHANGED pinVars
  /\ gatePc = "flush"
  /\ ResidualInput(serial)
  /\ serial' = serial - 1
  /\ UNCHANGED <<gatePc, gateFn, timerMS, baseX, baseY, color, basetime, prev, now, clock,
                 cursor, textColor, indicator, toggles, exitDisplays, called, arrived,
                 fresh, startTime>>

\* lines 499-501 / 535-537: the cursor is put back and the gate returns
GateReturn ==
  /\ UNCHANGED notGate
  /\ UNCHANGED pinVars
  /\ gatePc = "flush"
  /\ ~ResidualInput(serial)
  /\ cursor' = <<baseX, baseY>>
  /\ textColor' = 1
  /\ gatePc' = "returned"
  /\ UNCHANGED <<gateFn, timerMS, baseX, baseY, color, basetime, prev, now, serial, clock,
                 indicator, toggles, exitDisplays, called, arrived, fresh, startTime>>

\* the environment: time passes while the gate runs
Tick ==
  /\ UNCHANGED notGate
  /\ UNCHANGED pinVars
  /\ gatePc \notin {"idle", "returned"}
  /\ clock + TickMs <= MaxClock
  /\ clock' = clock + TickMs
  /\ UNCHANGED <<gatePc, gateFn, timerMS, baseX, baseY, color, basetime, prev, now, serial,
                 cursor, textColor, indicator, toggles, exitDisplays, called, arrived,
                 fresh, startTime>>

\* the environment: an input event (a byte on the serial line) arrives
Arrive ==
  /\ UNCHANGED notGate
  /\ UNCHANGED pinVars
  /\ gatePc # "returned"
  /\ serial < MaxSerial
  /\ serial' = serial + 1
  /\ arrived' = (arrived \/ gatePc # "idle")
  /\ fresh' = (fresh \/ gatePc \notin {"idle", "drain"})
  /\ UNCHANGED <<gatePc, gateFn, timerMS, baseX, baseY, color, basetime, prev, now, clock,
                 cursor, textColor, indicator, toggles, exitDisplays, called, startTime>>

\* the environment: the clock advances only while the gate polls: the wait loop
\* has read the current time and found nothing to do
Polling ==
  /\ gatePc = "check"
  /\ now = clock
  /\ WaitCond(gateFn, serial, pin, now, basetime, timerMS)

PolledTick == Polling /\ Tick

\* the environment: the button is pressed or released
PinChange ==
  /\ UNCHANGED notGate
  /\ gatePc # "returned"
  /\ pin' = 1 - pin
  /\ pinFresh' = (pinFresh \/ (pin = 0 /\ gatePc \notin {"idle", "drain"}))
  /\ UNCHANGED <<gatePc, gateFn, timerMS, baseX, baseY, color, basetime, prev, now, serial,
                 clock, cursor, textColor, indicator, toggles, exitDisplays, called,
                 arrived, fresh, startTime>>

InitGate ==
  /\ pin = 0
  /\ pinFresh = FALSE
  /\ gatePc = "idle"
  /\ gateFn = "ctcSerial"
  /\ timerMS = 0
  /\ baseX = 0
  /\ baseY = 0
  /\ color = 0
  /\ basetime = 0
  /\ prev = 0
  /\ now = 0
  /\ serial = 0
  /\ clock = 0
  /\ cursor = <<0, 0>>
  /\ textColor = ON
  /\ indicator = 0
  /\ toggles = 0
  /\ exitDisplays = 0
  /\ called = [queued |-> 0, cursor |-> <<0, 0>>, textColor |-> ON]
  /\ arrived = FALSE
  /\ fresh = FALSE
  /\ startTime = 0

NextGate ==
  \/ GateCall \/ DrainRead \/ WaitBegin \/ WaitCheck \/ WaitBody \/ GateExit
  \/ FlushRead \/ GateReturn \/ Tick \/ Arrive

NextGatePolled ==
  \/ GateCall \/ DrainRead \/ WaitBegin \/ WaitCheck \/ WaitBody \/ GateExit
  \/ FlushRead \/ GateReturn \/ PolledTick \/ Arrive

NextPin ==
  \/ PinGateCall \/ DrainRead \/ WaitBegin \/ WaitCheck \/ WaitBody \/ GateExit
  \/ FlushRead \/ GateReturn \/ Tick \/ Arrive \/ PinChange

(***************************************************************************)
(* fadeVertical / fadeHorizontal / fadeDiagonal                            *)
(***************************************************************************)
FadeFns == {"fadeVertical", "fadeHorizontal", "fadeDiagonal"}
CyclesArgs == RECOMM..MaxCycles
WholeDelayArgs == {RECOMM, 0, MaxWhole}

\* line 135 / 160 / 185: `if (cycles < 0) cycles = 4` (3 in fadeHorizontal)
NormCycles(fn, c) == IF c < 0 THEN (IF fn = "fadeHorizontal" THEN 3 ELSE 4) ELSE c

\* line 136 / 161 / 186: `if (wholedelaytime < 0) wholedelaytime = 10 * cycles`
\* (25 * cycles in fadeDiagonal), on the cycles already normalised
NormWholeDelay(fn, w, c) ==
  IF w < 0 THEN (IF fn = "fadeDiagonal" THEN 25 ELSE 10) * c ELSE w

\* line 139 / 164 / 189: the bound of the inner loop
FadeExtent(fn) ==
  CASE fn = "fadeVertical" -> DispWidth
    [] fn = "fadeHorizontal" -> DispHeight
    [] OTHER -> DispWidth + DispHeight

\* lines 139-141 / 164-166 / 189-191: the lines of one pass, j = k, k + c, ...
FadeLinesOf(k, c, extent) == {j \in k..(extent - 1) : (j - k) % c = 0}

\* what `wholedelaytime / 0` may yield: the division is undefined, a build
\* yields all ones or zero as the quotient, or traps
ZeroDivQuotients == {-1, 0}

\* lines 133-136 / 158-161 / 183-186: the call and the defaults
FadeCall ==
  /\ UNCHANGED notFade
  /\ fadePc = "idle"
  /\ \E fn \in FadeFns, c \in CyclesArgs, w \in WholeDelayArgs, st \in {OFF, ON} :
       /\ fadeFn' = fn
       /\ cycles' = NormCycles(fn, c)
       /\ wholedelaytime' = NormWholeDelay(fn, w, NormCycles(fn, c))
       /\ state' = st
  /\ fadeI' = 0
  /\ fadePc' = "loop"
  /\ UNCHANGED <<fadeLines, fadeDisplays, fadeDelays, divisors>>

\* lines 138-144 / 163-169 / 188-194: one pass of the outer loop
FadeIter ==
  /\ UNCHANGED notFade
  /\ fadePc = "loop"
  /\ fadeI < cycles
  /\ fadeLines' = fadeLines \cup FadeLinesOf(fadeI, cycles, FadeExtent(fadeFn))
  /\ fadeDisplays' = fadeDisplays + 1
  /\ divisors' = Append(divisors, cycles)
  /\ fadeDelays' = Append(fadeDelays, wholedelaytime \div cycles)
  /\ fadeI' = fadeI + 1
  /\ UNCHANGED <<fadePc, fadeFn, cycles, wholedelaytime, state>>

\* line 138 / 163 / 188 and 146 / 171 / 196: the loop is over; `if (!state)`
FadeLoopEnd ==
  /\ UNCHANGED notFade
  /\ fadePc = "loop"
  /\ ~(fadeI < cycles)
  /\ fadePc' = IF state = 0 THEN "clear" ELSE "returned"
  /\ UNCHANGED <<fadeFn, cycles, wholedelaytime, state, fadeI, fadeLines, fadeDisplays,
                 fadeDelays, divisors>>

\* lines 147-149 / 172-174 / 197-199: the display is cleared and presented,
\* and `wholedelaytime / cycles` is waited
FadeClear ==
  /\ UNCHANGED notFade
  /\ fadePc = "clear"
  /\ fadeLines' = {}
  /\ fadeDisplays' = fadeDisplays + 1
  /\ divisors' = Append(divisors, cycles)
  /\ IF cycles # 0
       THEN /\ fadeDelays' = Append(fadeDelays, wholedelaytime \div cycles)
            /\ fadePc' = "returned"
       ELSE \/ /\ fadePc' = "trapped"
               /\ UNCHANGED fadeDelays
            \/ /\ fadePc' = "returned"
               /\ \E q \in ZeroDivQuotients : fadeDelays' = Append(fadeDelays, q)
  /\ UNCHANGED <<fadeFn, cycles, wholedelaytime, state, fadeI>>

InitFade ==
  /\ fadePc = "idle"
  /\ fadeFn = "fadeVertical"
  /\ cycles = 0
  /\ wholedelaytime = 0
  /\ state = 0
  /\ fadeI = 0
  /\ fadeLines = {}
  /\ fadeDisplays = 0
  /\ fadeDelays = <<>>
  /\ divisors = <<>>

NextFade == FadeCall \/ FadeIter \/ FadeLoopEnd \/ FadeClear

Init == InitScroll /\ InitDialog /\ InitGate /\ InitFade

SpecScroll == Init /\ [][NextScroll]_vars

SpecDialog == Init /\ [][NextDialog]_vars

SpecGate == Init /\ [][NextGate]_vars

\* the steps of the gate itself: the processor keeps executing them
GateStep ==
  DrainRead \/ WaitBegin \/ WaitCheck \/ WaitBody \/ GateExit \/ FlushRead \/ GateReturn

\* the gate keeps running, and the clock keeps advancing under the polling loop
SpecGatePolled ==
  Init /\ [][NextGatePolled]_vars /\ WF_vars(GateStep) /\ SF_vars(PolledTick)

SpecPin == Init /\ [][NextPin]_vars

SpecFade == Init /\ [][NextFade]_vars

(***************************************************************************)
(* Properties of drawVerticalScrollingBitmap.                              *)
(***************************************************************************)
ScrollCalled == scrollPc # "idle"
ScrollDone == scrollPc = "done" /\ scrollstep # 0

\* C1: for scrollstep > 0 the resolved end offset is bmp.height when the end_y
\* argument is <= 0; otherwise it is end_y + 64, except that it is bmp.height
\* when end_y + 64 > bmp.height and allowoverflow is false.
C1_DownwardResolution ==
  (ScrollCalled /\ scrollstep > 0) =>
     end_y = (IF endMarker <= 0 THEN bmpHeight
              ELSE IF endMarker + 64 > bmpHeight /\ ~allowoverflow THEN bmpHeight
              ELSE endMarker + 64)

\* a downward call whose positive end_y was clamped to the bitmap's height
C1_Witness ==
  /\ ScrollCalled /\ scrollstep > 0 /\ endMarker > 0 /\ ~allowoverflow
  /\ endMarker + 64 > bmpHeight /\ end_y = bmpHeight

\* C2: for scrollstep < 0 the resolved end offset is bmp.height - 64 when
\* end_y + 64 > bmp.height and allowoverflow is false; else 0 when end_y < 0 and
\* allowoverflow is false; else the end_y argument unchanged.
C2_UpwardResolution ==
  (ScrollCalled /\ scrollstep < 0) =>
     end_y = (IF endMarker + 64 > bmpHeight /\ ~allowoverflow THEN bmpHeight - 64
              ELSE IF endMarker < 0 /\ ~allowoverflow THEN 0
              ELSE endMarker)

\* an upward call whose end_y was clamped to bmp.height - 64
C2_Witness ==
  /\ ScrollCalled /\ scrollstep < 0 /\ ~allowoverflow
  /\ endMarker + 64 > bmpHeight /\ bmpHeight >= 64 /\ end_y = bmpHeight - 64

\* C3 as claimed: in both directions and for every bmp.height, end_y and
\* allowoverflow, the resolved end offset satisfies 0 <= endY <= bmp.height.
C3_EndYInBitmap ==
  (ScrollCalled /\ scrollstep # 0) => (0 <= end_y /\ end_y <= bmpHeight)

\* C3 amended: with allowoverflow false, the resolved end offset satisfies
\* 0 <= endY <= bmp.height for a downward scroll of any height and for an
\* upward scroll of a bitmap at least 64 rows high.
C3_EndYInBitmapNoOverflow ==
  (ScrollCalled /\ scrollstep # 0 /\ ~allowoverflow /\ (scrollstep > 0 \/ bmpHeight >= 64))
     => (0 <= end_y /\ end_y <= bmpHeight)

\* a downward call, overflow disallowed, whose end_y + 64 would pass the bitmap
C3_Witness ==
  /\ ScrollCalled /\ scrollstep > 0 /\ ~allowoverflow /\ endMarker > 0
  /\ endMarker + 64 > bmpHeight /\ bmpHeight >= 64 /\ scrollPc = "done"

\* the y of the drawBitmap of the final frame, and the bitmap rows it puts
\* into the 64 rows of the viewport
FinalDrawY == lastOps[1].y
FinalRows == (-FinalDrawY)..(-FinalDrawY + 63)

\* C4 as claimed: with allowoverflow false the final frame shows, in the 64
\* viewport rows, only bitmap rows in [0, bmp.height), for every bitmap height.
C4_FinalFrameInBitmap ==
  (ScrollDone /\ ~allowoverflow) =>
     \A r \in FinalRows : 0 <= r /\ r < bmpHeight

\* C4 amended: with allowoverflow false and a bitmap at least 64 rows high, the
\* final frame shows only bitmap rows in [0, bmp.height), in both directions.
C4_FinalFrameInTallBitmap ==
  (ScrollDone /\ ~allowoverflow /\ bmpHeight >= 64) =>
     /\ lastOps[1].op = "drawBitmap"
     /\ \A r \in FinalRows : 0 <= r /\ r < bmpHeight

\* a finished downward scroll of a tall bitmap that stepped at least once
C4_Witness ==
  /\ ScrollDone /\ ~allowoverflow /\ bmpHeight > 64 /\ scrollstep > 0 /\ loopFrames > 0

\* C5: with offset_y = 0, overflow disallowed, end_y = 0 and a bitmap of height
\* H >= 64 with H - 64 a multiple of scrollstep > 0, the end offset is H, the
\* loop presents exactly (H - 64) / scrollstep frames, each advanced by exactly
\* scrollstep pixels, and one final frame follows.
C5_DownwardStepCount ==
  (/\ ScrollCalled /\ scrollstep > 0 /\ offset_y = 0 /\ ~allowoverflow /\ endMarker = 0
   /\ bmpHeight >= 64 /\ (bmpHeight - 64) % scrollstep = 0)
  => /\ end_y = bmpHeight
     /\ lastStep \in {0, scrollstep}
     /\ scrollPc = "done" =>
          (loopFrames = (bmpHeight - 64) \div scrollstep /\ finalFrames = 1)

\* C6: once the stepping loop has ended, the bitmap is drawn once at the position
\* of the resolved end offset, presented, and enddelay is waited, and these are
\* the last operations of the call; when the starting offset already equals the
\* resolved end offset the loop presents no frame.
ZeroSteps ==
  \/ scrollstep > 0 /\ 64 - offset_y = end_y
  \/ scrollstep < 0 /\ offset_y = -end_y

C6_OneFinalFrame ==
  /\ (ScrollCalled /\ scrollPc # "done") => finalFrames = 0
  /\ ScrollDone =>
       /\ lastOps = << DrawBitmap(IF scrollstep > 0 THEN 64 - end_y ELSE -end_y, ON),
                       Display, Delay(enddelay) >>
       /\ finalFrames = 1
       /\ ZeroSteps => loopFrames = 0

\* a finished call that needed no step
C6_Witness == ScrollDone /\ ZeroSteps /\ finalFrames = 1 /\ loopFrames = 0

\* the position of the call in its control flow, and the rows the loop still
\* has to go
ScrollRankPc ==
  CASE scrollPc = "idle" -> 3
    [] scrollPc \in {"down", "up"} -> 2
    [] scrollPc = "final" -> 1
    [] OTHER -> 0

ScrollRemaining ==
  IF scrollPc = "down" /\ DownCond(height, offset_y, end_y)
    THEN end_y - (height + 64 - offset_y)
  ELSE IF scrollPc = "up" /\ UpCond(height, end_y)
    THEN (-end_y) - height
  ELSE 0

\* C7: drawVerticalScrollingBitmap terminates for every parameter combination:
\* a call that has not returned can always take its next step, and every step
\* either moves on in the control flow or, staying in the stepping loop, leaves
\* strictly fewer rows to go, so the loop runs finitely often and the call
\* reaches its final frame and returns.
C7_Terminates ==
  /\ [](scrollPc = "done" \/ ENABLED NextScroll)
  /\ [][ \/ ScrollRankPc' < ScrollRankPc
         \/ (ScrollRankPc' = ScrollRankPc /\ ScrollRemaining' < ScrollRemaining
             /\ ScrollRemaining' >= 0) ]_vars

\* a finished call on a bitmap shorter than the viewport whose loop ran
C7_Witness == ScrollDone /\ bmpHeight < 64 /\ loopFrames > 0 /\ finalFrames = 1

(***************************************************************************)
(* Properties of drawDialogText / drawTimedDialogText.                     *)
(***************************************************************************)
DialogDone == dlgPc = "done"

\* the markers of a body, the body without them, the characters written after
\* the header, and the confirm-gate calls
IsGate(o) == o.op \in {"ctcSerial", "ctcTimedSerial"}
Markers(str) == Cardinality({k \in DOMAIN str : str[k] = MARKER})
NotMarker(c) == c # MARKER
IsWrite(o) == o.op = "write"
WrittenOps == SelectSeq(dlgOps, IsWrite)
Written == [k \in DOMAIN WrittenOps |-> WrittenOps[k].ch]
GateCalls == SelectSeq(dlgOps, IsGate)
IsMid(o) == o.ch = "mid"
IsEnd(o) == o.ch = "end"

\* C8: a body with k markers makes one call of drawDialogText /
\* drawTimedDialogText invoke the confirm gate exactly k + 1 times, k of them
\* mid-dialog and one at the end, for every textspeed and both values of onebyone.
C8_GateCount ==
  DialogDone =>
    /\ Len(GateCalls) = Markers(dialog) + 1
    /\ Len(SelectSeq(GateCalls, IsMid)) = Markers(dialog)
    /\ Len(SelectSeq(GateCalls, IsEnd)) = 1

\* C9: the characters written to the display after the header are the body with
\* every marker removed, in the original order; the marker is never written.
C9_VisibleText ==
  DialogDone =>
    /\ Written = SelectSeq(dialog, NotMarker)
    /\ \A k \in DOMAIN Written : Written[k] # MARKER

(***************************************************************************)
(* Properties of ctcSerial / ctcTimedSerial.                               *)
(***************************************************************************)
GateLeft == gatePc \in {"exit", "flush", "returned"}

\* C10 as claimed: with an input event queued when ctcSerial is called and no
\* further input, the gate returns at once; the indicator never toggles.
C10_PrequeuedReturnsAtOnce ==
  (gatePc # "idle" /\ gateFn = "ctcSerial" /\ called.queued > 0 /\ ~arrived)
     => toggles = 0

\* C10 amended: input queued when ctcSerial is called is discarded and does not
\* end the wait; the gate leaves its wait loop only after an input event that
\* arrived after the discard, and when it returns no more than 500 ms after the
\* wait began, the indicator has not toggled even once.
C10_FreshInputReturns ==
  (gateFn = "ctcSerial" /\ gatePc # "idle") =>
     /\ GateLeft => fresh
     /\ (gatePc = "returned" /\ clock - startTime <= 500) => toggles = 0

\* ctcSerial, called with input queued, returned on a later event within 500 ms
C10_Witness ==
  /\ gateFn = "ctcSerial" /\ gatePc = "returned" /\ called.queued > 0
  /\ fresh /\ toggles = 0 /\ clock - startTime <= 500 /\ clock > startTime

\* ---------------------------------------------------------------------------
\* C11: every confirm gate leaves the caller's cursor state unchanged: the
\* cursor position and the text colour on return equal their values at the
\* call, for every position and every text colour (0 or 1).
\* The gates end with setTextColor(1) (lines 501 / 537 / 576 / 609), so a
\* caller that drew in colour 0 gets colour 1 back: the statement is violated.
C11_CursorStateUnchanged ==
  gatePc = "returned" => (cursor = called.cursor /\ textColor = called.textColor)

\* ---------------------------------------------------------------------------
\* C12: ctcTimedSerial called with a timeout T >= 0 and no input event ever
\* arriving returns, provided the clock keeps advancing; it does not leave its
\* wait before T ms have elapsed since the recorded start time, nor later than
\* T + 500 ms after it. (Checked with the clock advancing under the polling
\* loop: the loop reads millis() at least once per tick.)
TimedNoInput == gateFn = "ctcTimedSerial" /\ timerMS >= 0 /\ ~arrived

C12_TimedReturn ==
  /\ [](TimedNoInput /\ GateLeft => clock - basetime >= timerMS)
  /\ [](TimedNoInput /\ gatePc \in {"check", "body", "exit", "flush", "returned"}
          => clock - basetime <= timerMS + BLINK)
  /\ (TimedNoInput /\ gatePc = "drain") ~> (gatePc = "returned" \/ arrived)

C12_Witness ==
  /\ TimedNoInput
  /\ timerMS = MaxTimer
  /\ gatePc = "returned"
  /\ clock - basetime >= timerMS
  /\ toggles > 0

\* ---------------------------------------------------------------------------
\* C13: in drawTimedDialogText every mid-dialog marker wait uses the timed gate
\* (with the timer) if and only if timedinput is true, and the closing wait
\* uses it if and only if timedend is true; a site whose flag is false waits
\* on the untimed gate, whose wait loop, without input, goes on whatever the
\* clock reads.
ClockReadings == {k * TickMs : k \in 0..(MaxClock \div TickMs)}

SiteFlag(o) == IF IsMid(o) THEN timedinput ELSE timedend

C13_PerSitePolicy ==
  dlgFn = "drawTimedDialogText" =>
    \A k \in DOMAIN dlgOps :
      IsGate(dlgOps[k]) =>
        /\ IsMid(dlgOps[k]) \/ IsEnd(dlgOps[k])
        /\ dlgOps[k].op = "ctcTimedSerial" <=> SiteFlag(dlgOps[k]) # 0
        /\ dlgOps[k].op = "ctcTimedSerial" => dlgOps[k].ms = timer
        /\ SiteFlag(dlgOps[k]) = 0 =>
             \A bt \in ClockReadings, nw \in ClockReadings :
               WaitCond(dlgOps[k].op, 0, 0, nw, bt, dlgOps[k].ms)

C13_Witness ==
  /\ DialogDone
  /\ dlgFn = "drawTimedDialogText"
  /\ timedinput # 0
  /\ timedend = 0
  /\ \E k \in DOMAIN dlgOps : dlgOps[k] = Gate("ctcTimedSerial", "mid", timer)
  /\ dlgOps[Len(dlgOps)] = Gate("ctcSerial", "end", 0)

\* ---------------------------------------------------------------------------
\* C14: the pin gates obey the contract of the serial gates with only the
\* input poll replaced: ctc and ctcTimed leave their wait loop on the first
\* observed event on the button pin, and ctcTimed otherwise on timeout.
\* ctcTimed never reads the pin (line 589 polls Serial.available()): a byte on
\* the serial line releases it with the button untouched and the timer running.
C14_PinGateLeavesOnPinEvent ==
  (gateFn \in {"ctc", "ctcTimed"} /\ GateLeft) =>
     \/ pinFresh
     \/ gateFn = "ctcTimed" /\ now - basetime >= timerMS

\* ---------------------------------------------------------------------------
\* C15: a non-positive textspeed argument (0, or a negative value such as
\* RECOMM) is normalised to 1: in onebyone mode the body is revealed one
\* character per tick, so no two characters are written without a present
\* between them, for dialogs of every length.
\* textspeed is a uint8_t (lines 327 / 390): -1 arrives as 255, the test
\* `textspeed <= 0` does not fire, and a body longer than 255 characters is
\* revealed 255 characters at a time.
C15_NonPositiveSpeedIsOne ==
  (onebyone # 0 /\ textspeedArg <= 0) =>
    \A k \in 1..(Len(dlgOps) - 1) : IsWrite(dlgOps[k]) => ~IsWrite(dlgOps[k + 1])

\* ---------------------------------------------------------------------------
\* C16: the stepping rule, in both directions: in a loop iteration with r > 0
\* rows remaining to the resolved end_y and s = |scrollstep|, the offset
\* advances by exactly s when r >= s; when r < s it advances by exactly 1 if
\* snaptoend is false, and if snaptoend is true the step is skipped (no redraw,
\* no present) and control goes to the final frame.
\* The downward loop refuses the step that lands exactly on end_y (line 280
\* has < where line 297 has <=), so at r = s it advances by 1 or breaks.
AbsStep == IF scrollstep < 0 THEN -scrollstep ELSE scrollstep

C16_SteppingRule ==
  [][ (scrollPc \in {"down", "up"} /\ ScrollRemaining > 0) =>
        IF ScrollRemaining >= AbsStep
          THEN height' - height = AbsStep /\ loopFrames' = loopFrames + 1
        ELSE IF ~snaptoend
          THEN height' - height = 1 /\ loopFrames' = loopFrames + 1
        ELSE height' = height /\ loopFrames' = loopFrames /\ scrollPc' = "final" ]_vars

\* ---------------------------------------------------------------------------
\* C17: the live pan offset never overshoots the resolved end_y and only moves
\* toward it: every frame presented by the stepping loop has an offset strictly
\* greater than the frame before it, with height + 64 - offset_y <= end_y
\* (downward) or height <= -end_y (upward), for every scrollstep, snaptoend and
\* allowoverflow.
C17_NoOvershoot ==
  /\ [](loopFrames > 0 =>
          IF scrollstep > 0 THEN height + VIEWPORT - offset_y <= end_y
                            ELSE height <= -end_y)
  /\ [][loopFrames' > loopFrames => height' > height]_vars

\* an upward scroll that approached its end with a full step and then row by row
C17_Witness ==
  /\ scrollPc = "up"
  /\ scrollstep < -1
  /\ loopFrames > 1
  /\ lastStep = 1
  /\ height = -end_y

\* ---------------------------------------------------------------------------
\* C18: in onebyone mode every occurrence of the marker, at whatever position
\* of the body (the last textspeed characters included), triggers in this
\* order a present, a wait of chardelay and one confirm-gate wait; emission
\* then resumes with the character after the marker.
\* The trailing loop (lines 359-367 / 424-435) calls the gate at a marker
\* without the present and the wait that the chunked loop makes first.
GateEntered == Len(dlgOps') > Len(dlgOps) /\ IsGate(dlgOps'[Len(dlgOps')])
                 /\ IsMid(dlgOps'[Len(dlgOps')])

C18_MarkerTriggersPresentWaitGate ==
  [][ (onebyone # 0 /\ GateEntered) =>
        /\ Len(dlgOps') = Len(dlgOps) + 3
        /\ dlgOps'[Len(dlgOps') - 2] = Present
        /\ dlgOps'[Len(dlgOps') - 1] = Wait(chardelay)
        /\ i' + x' = i + x + 1 ]_vars

\* ---------------------------------------------------------------------------
\* C19: in onebyone mode, for every textspeed: when the j-th mid-dialog confirm
\* gate is entered, the characters written so far are exactly the body prefix
\* before the j-th marker with earlier markers removed, and the closing gate is
\* entered only after every non-marker character of the body has been written
\* and presented. (Every gate call is, in the step that makes it, the last
\* entry of dlgOps.)
LastOp == dlgOps[Len(dlgOps)]

MidGatesEntered == Len(SelectSeq(GateCalls, IsMid))

\* the position of the j-th marker of the body
MarkerAt(j) ==
  CHOOSE p \in DOMAIN dialog :
    dialog[p] = MARKER /\ Markers(SubSeq(dialog, 1, p)) = j

LastWriteAt ==
  IF \E k \in DOMAIN dlgOps : IsWrite(dlgOps[k])
    THEN CHOOSE k \in DOMAIN dlgOps :
           IsWrite(dlgOps[k]) /\ \A m \in (k + 1)..Len(dlgOps) : ~IsWrite(dlgOps[m])
    ELSE 0

C19_GatesFollowRevealedText ==
  (onebyone # 0 /\ dlgOps # <<>> /\ IsGate(LastOp)) =>
    IF IsMid(LastOp)
      THEN /\ MidGatesEntered <= Markers(dialog)
           /\ Written = SelectSeq(SubSeq(dialog, 1, MarkerAt(MidGatesEntered) - 1), NotMarker)
      ELSE /\ Written = SelectSeq(dialog, NotMarker)
           /\ LastWriteAt > 0 =>
                \E k \in (LastWriteAt + 1)..(Len(dlgOps) - 1) : dlgOps[k] = Present

\* the body a`b revealed one character per tick: a gate at "a", a gate at "ab"
C19_Witness ==
  /\ DialogDone
  /\ onebyone # 0
  /\ textspeed = 1
  /\ dialog = <<"a", MARKER, "b">>
  /\ Len(GateCalls) = 2
  /\ Written = <<"a", "b">>

\* ---------------------------------------------------------------------------
\* C20: an untimed confirm gate returns only because of a fresh input event:
\* ctcSerial first discards all input pending at the call and then never leaves
\* its wait unless an input event arrives after that discard, however much time
\* elapses; ctcTimedSerial leaves only on such an event or once the time
\* elapsed since the start has reached the timeout.
C20_OnlyFreshInputOrTimeout ==
  /\ (gatePc \notin {"idle", "drain"} /\ ~fresh) => serial = 0
  /\ (gateFn = "ctcSerial" /\ gatePc # "idle" /\ ~fresh) => ~GateLeft
  /\ (gateFn = "ctcTimedSerial" /\ GateLeft) =>
       (fresh \/ (now - basetime >= timerMS /\ clock - basetime >= timerMS))

\* ctcSerial, called with input queued, went on waiting while the indicator
\* blinked and left on a later event
C20_Witness ==
  /\ gateFn = "ctcSerial"
  /\ called.queued > 0
  /\ GateLeft
  /\ fresh
  /\ toggles > 1
  /\ clock - startTime > 2 * BLINK

\* ---------------------------------------------------------------------------
\* C21: the exit state of the confirm gate: whatever the indicator's state
\* when the wait loop ends (after any number of toggles, by input or by
\* timeout), the gate draws the indicator in the off colour, presents exactly
\* once after the loop, and drains the input, so that on return the indicator
\* is not visible and no input event is pending.
C21_ExitState ==
  /\ gatePc \in {"flush", "returned"} => (indicator = OFF /\ exitDisplays = 1)
  /\ gatePc \in {"idle", "drain", "check", "body", "exit"} => exitDisplays = 0
  /\ gatePc = "returned" => serial = 0

\* a gate that returned after its loop had ended with the indicator on, on an
\* input event that the drain then discarded
C21_Witness ==
  /\ gatePc = "returned"
  /\ color = ON
  /\ toggles >= 1
  /\ fresh
  /\ indicator = OFF
  /\ serial = 0

\* ---------------------------------------------------------------------------
\* C22: the reveal cursor in onebyone mode, for every body length and every
\* textspeed in 1..255: the index i only increases, every character read
\* (dialog[i + x] or dialog[i]) has an index in [0, size), the indices
\* 0 .. size-1 are processed exactly once each in increasing order across the
\* chunked loop and the trailing loop, and the walk ends with i = size.
C22_RevealCursor ==
  /\ [](onebyone # 0 =>
          /\ textspeed \in 1..255
          /\ Len(reads) <= Len(dialog)
          /\ reads = [k \in 1..Len(reads) |-> k - 1]
          /\ dlgPc \in {"inner", "tail"} => Len(reads) = i + x
          /\ DialogDone => (i = Len(dialog) /\ Len(reads) = Len(dialog)))
  /\ [][i' >= i]_vars

\* a walk that ended after one chunk of two and a trailing character
C22_Witness ==
  /\ DialogDone
  /\ onebyone # 0
  /\ textspeed = 2
  /\ Len(dialog) = 3
  /\ reads = <<0, 1, 2>>
  /\ i = 3

\* ---------------------------------------------------------------------------
\* C23: no ghost image at the end of a scroll: for every call with
\* scrollstep # 0 and every offset_y, when the final frame is drawn at the
\* resolved end_y the copy of the bitmap drawn before it (the initial draw at
\* offset_y or the last loop frame) has been erased or lies at the final
\* frame's position, so the final presentation shows the bitmap at one
\* vertical offset only.
\* The erase is the first statement of the loop body (lines 278 / 295): when
\* the loop condition fails at once, the initial draw at offset_y is still lit
\* when the final frame is drawn elsewhere.
C23_NoGhostImage ==
  ScrollDone => bitmapAt = {FinalDrawY}

(***************************************************************************)
(* Properties of fadeVertical / fadeHorizontal / fadeDiagonal.             *)
(***************************************************************************)
\* C24: the fade functions never compute a step delay with a zero divisor: for
\* every cycles argument (negative, zero or positive) and both values of
\* state, after the normalisation of negative values every evaluation of
\* wholedelaytime / cycles has cycles # 0.
\* Only negative cycles are replaced (`cycles < 0`), so cycles = 0 stays 0: the
\* loop is skipped, and with state = 0 line 149 / 174 / 199 divides by it.
C24_NoZeroDivisor ==
  \A k \in DOMAIN divisors : divisors[k] # 0

=============================================================================
